---- MODULE Spec2Model ----
(***************************************************************************)
(* A model of albumfixer.py: the library walk (process_music_library), the *)
(* per-album pipeline (process_album_folder: identity, cover art, lyrics,  *)
(* track rename, relocation), the interactive helper and the pure string   *)
(* helpers.  Strings are sequences of one-character strings; a directory   *)
(* path is the sequence of the names below the music root.                 *)
(***************************************************************************)
EXTENDS Integers, Sequences, FiniteSets, TLC

VARIABLES
    fs,             \* the directory tree: path -> [file name -> file]
    pc,             \* position of the program
    runs,           \* how many times the program has been started
    album_folders,  \* process_music_library: the sorted candidate list
    idx,            \* process_music_library: index of the folder being processed
    loc,            \* process_album_folder: its local variables
    k,              \* process_album_folder: index into audio_files (lyrics, rename)
    calls,          \* art-provider requests of the current invocation, in order
    prompts,        \* Disambiguator prompts answered in the current invocation
    fixes,          \* fix_cover_for_rockbox calls of the current invocation
    lyric_reqs,     \* lyrics-provider requests of the current invocation
    results,        \* outcomes of process_album_folder in the current run, in order
    placed          \* paths a folder was relocated to by process_album_folder

vars == <<fs, pc, runs, album_folders, idx, loc, k, calls, prompts, fixes,
          lyric_reqs, results, placed>>

(***************************************************************************)
(* Bounds of the model.                                                    *)
(***************************************************************************)
MaxRuns == 2
MaxPrompts == 1

(***************************************************************************)
(* Characters and Python's str methods.                                    *)
(***************************************************************************)
\* The characters used, in code-point order (str comparison, list.sort).
CharOrder ==
    <<" ", "(", ")", "-", ".", "/", "0", "1", "2", "3", "?",
      "A", "B", "C", "D", "R", "_",
      "a", "b", "c", "d", "e", "f", "g", "j", "k", "l", "m", "o", "p", "r",
      "t", "v", "x">>

Ord(c) == CHOOSE n \in 1..Len(CharOrder) : CharOrder[n] = c

\* str.isalnum for one character
IsAlnum(c) ==
    c \in {"0", "1", "2", "3", "A", "B", "C", "D", "R",
           "a", "b", "c", "d", "e", "f", "g", "j", "k", "l", "m", "o", "p",
           "r", "t", "v", "x"}

\* str.lower for one character
LowerChar(c) ==
    CASE c = "A" -> "a" [] c = "B" -> "b" [] c = "C" -> "c"
      [] c = "D" -> "d" [] c = "R" -> "r" [] OTHER -> c

Lower(s) == [n \in 1..Len(s) |-> LowerChar(s[n])]

\* "".join(c for c in s if keep(c))
RECURSIVE Filter(_, _)
Filter(s, allowed) ==
    IF s = <<>> THEN <<>>
    ELSE IF IsAlnum(Head(s)) \/ Head(s) \in allowed
         THEN <<Head(s)>> \o Filter(Tail(s), allowed)
         ELSE Filter(Tail(s), allowed)

RECURSIVE LStrip(_)
LStrip(s) == IF s # <<>> /\ Head(s) = " " THEN LStrip(Tail(s)) ELSE s

RECURSIVE RStripChar(_, _)
RStripChar(s, c) ==
    IF s # <<>> /\ s[Len(s)] = c THEN RStripChar(SubSeq(s, 1, Len(s) - 1), c) ELSE s

\* str.strip()
Strip(s) == RStripChar(LStrip(s), " ")

StartsWith(s, p) == Len(p) <= Len(s) /\ SubSeq(s, 1, Len(p)) = p

EndsWith(s, p) == Len(p) <= Len(s) /\ SubSeq(s, Len(s) - Len(p) + 1, Len(s)) = p

\* str.find: the 0-based index of the first occurrence of d in s, or -1
Find(s, d) ==
    LET hits == {n \in 1..(Len(s) - Len(d) + 1) : SubSeq(s, n, n + Len(d) - 1) = d}
    IN  IF hits = {} THEN -1
        ELSE (CHOOSE n \in hits : \A m \in hits : n <= m) - 1

\* str.split(d, 1)
Split1(s, d) ==
    LET at == Find(s, d)
    IN  IF at = -1 THEN <<s>>
        ELSE <<SubSeq(s, 1, at), SubSeq(s, at + Len(d) + 1, Len(s))>>

\* str.replace(d, ""): the non-overlapping occurrences, left to right
RECURSIVE RemoveAll(_, _)
RemoveAll(s, d) ==
    IF Len(s) < Len(d) THEN s
    ELSE IF SubSeq(s, 1, Len(d)) = d
         THEN RemoveAll(SubSeq(s, Len(d) + 1, Len(s)), d)
         ELSE <<Head(s)>> \o RemoveAll(Tail(s), d)

\* str.zfill(width): zeros go after a leading sign
ZFill(s, width) ==
    LET pad == [n \in 1..(width - Len(s)) |-> "0"]
    IN  IF Len(s) >= width THEN s
        ELSE IF s # <<>> /\ Head(s) \in {"+", "-"}
             THEN <<Head(s)>> \o pad \o Tail(s)
             ELSE pad \o s

\* str < str
RECURSIVE StrLess(_, _)
StrLess(a, b) ==
    IF b = <<>> THEN FALSE
    ELSE IF a = <<>> THEN TRUE
    ELSE IF Head(a) = Head(b) THEN StrLess(Tail(a), Tail(b))
    ELSE Ord(Head(a)) < Ord(Head(b))

(***************************************************************************)
(* The pure helpers of the program.                                        *)
(***************************************************************************)
\* sanitize_filename that keeps the dots and does not take ".." out
sanitize_filename_keeps_dots(name) ==
    Strip(Filter(name, {" ", "-", "_", "(", ")", "."}))

sanitize_filename(name) ==
    LET safe_name == Strip(Filter(name, {" ", "-", "_", "(", ")"}))
    IN  RStripChar(Strip(RemoveAll(safe_name, <<".", ".">>)), ".")

\* download_lyrics: the name it gives the sidecar, without the extension
lyrics_safe_title(title) == Strip(Filter(title, {" ", "-", "_"}))

SEP == <<" ", "-", " ">>

\* parse_base_album_name without the trim of the prefix
parse_base_album_name_no_strip(album_name) ==
    LET delimiters == {<<" ", "(">>, <<" ", "[">>, SEP}
        found == {Find(album_name, d) : d \in delimiters} \ {-1}
    IN  IF found = {} THEN album_name
        ELSE SubSeq(album_name, 1, CHOOSE n \in found : \A m \in found : n <= m)

parse_base_album_name(album_name) ==
    LET delimiters == {<<" ", "(">>, <<" ", "[">>, SEP}
        found == {Find(album_name, d) : d \in delimiters} \ {-1}
        first_index ==
            IF found = {} THEN Len(album_name)
            ELSE CHOOSE n \in found : \A m \in found : n <= m
    IN  IF first_index # Len(album_name)
        THEN Strip(SubSeq(album_name, 1, first_index))
        ELSE album_name

(***************************************************************************)
(* Files, tags and the directory tree.                                     *)
(***************************************************************************)
\* Python's None, as a string-like value no string equals
None == <<"<None>">>

\* "not x" for a string or None
Falsy(x) == x = None \/ x = <<>>

\* what mutagen returns for a key: nothing, a list of strings, or one string
NoTag == [t |-> "none", v |-> <<>>]
ListTag(s) == [t |-> "list", v |-> <<s>>]
StrTag(s) == [t |-> "str", v |-> <<s>>]

\* audio.get(key)[0] if isinstance(audio.get(key), list) else audio.get(key)
first_or_scalar(tag) == IF tag.t = "none" THEN None ELSE tag.v[1]

Audio(title, tracknumber, artist, album) ==
    [kind |-> "audio", title |-> title, tracknumber |-> tracknumber,
     artist |-> artist, album |-> album,
     src |-> "", ok |-> TRUE, norm |-> FALSE, for |-> None]

\* an image: who wrote it, whether PIL can decode it, whether it is the
\* re-encoded baseline JPEG
Image(src, ok, norm) ==
    [kind |-> "image", title |-> NoTag, tracknumber |-> NoTag,
     artist |-> NoTag, album |-> NoTag,
     src |-> src, ok |-> ok, norm |-> norm, for |-> None]

\* a lyric sidecar written by download_lyrics for the track title `title`
Lyrics(title) ==
    [kind |-> "lyrics", title |-> NoTag, tracknumber |-> NoTag,
     artist |-> NoTag, album |-> NoTag,
     src |-> "", ok |-> TRUE, norm |-> FALSE, for |-> title]

NoFiles == [n \in {} |-> None]

\* root_dir, and os.sep
ROOT == <<"R">>
OS_SEP == <<"/">>

\* os.path.join(root_dir, n1, n2, ...)
RECURSIVE PathStr(_)
PathStr(p) ==
    IF p = <<>> THEN ROOT
    ELSE PathStr(SubSeq(p, 1, Len(p) - 1)) \o OS_SEP \o p[Len(p)]

IsPrefix(p, q) == Len(p) <= Len(q) /\ SubSeq(q, 1, Len(p)) = p

\* the subdirectories of directory p in the tree f
Children(f, p) == {q \in DOMAIN f : Len(q) = Len(p) + 1 /\ IsPrefix(p, q)}

\* the elements of a set of paths, in list.sort() order of their strings
RECURSIVE SortPaths(_)
SortPaths(S) ==
    IF S = {} THEN <<>>
    ELSE LET m == CHOOSE x \in S :
                    \A y \in S \ {x} : StrLess(PathStr(x), PathStr(y))
         IN  <<m>> \o SortPaths(S \ {m})

\* f.lower().endswith((".flac", ".mp3")): process_album_folder's test
IsTrackName(n) ==
    \/ EndsWith(Lower(n), <<".", "f", "l", "a", "c">>)
    \/ EndsWith(Lower(n), <<".", "m", "p", "3">>)

\* f.lower().endswith((".mp3", "flac")): process_music_library's test
IsWalkerAudioName(n) ==
    \/ EndsWith(Lower(n), <<".", "m", "p", "3">>)
    \/ EndsWith(Lower(n), <<"f", "l", "a", "c">>)

(***************************************************************************)
(* process_music_library: the walk and the candidate list.                 *)
(***************************************************************************)
\* os.walk(root_dir, topdown=False): a directory is yielded after all of its
\* subdirectories.  Removing ".rockbox" from dirs in the loop body comes after
\* the subdirectories were walked, so it does not change what is yielded.
RECURSIVE os_walk(_, _)
RECURSIVE WalkAll(_, _)
os_walk(f, top) == WalkAll(f, SortPaths(Children(f, top))) \o <<top>>
WalkAll(f, dirs) ==
    IF dirs = <<>> THEN <<>>
    ELSE os_walk(f, Head(dirs)) \o WalkAll(f, Tail(dirs))

\* the body of the walk loop, for one yielded directory
collect_step(f, acc, root) ==
    IF \E n \in DOMAIN f[root] : IsWalkerAudioName(n)
    THEN LET is_sub_album ==
                 \E j \in 1..Len(acc) :
                     StartsWith(PathStr(root), PathStr(acc[j]) \o OS_SEP)
         IN  IF ~is_sub_album THEN Append(acc, root) ELSE acc
    ELSE acc

RECURSIVE collect(_, _, _)
collect(f, acc, yielded) ==
    IF yielded = <<>> THEN acc
    ELSE collect(f, collect_step(f, acc, Head(yielded)), Tail(yielded))

Range(s) == {s[n] : n \in 1..Len(s)}

\* album_folders after the walk and album_folders.sort()
collect_album_folders(f) ==
    SortPaths(Range(collect(f, <<>>, os_walk(f, <<>>))))

(***************************************************************************)
(* File operations on the tree.                                            *)
(***************************************************************************)
FOLDER_JPG == <<"f", "o", "l", "d", "e", "r", ".", "j", "p", "g">>
COVER_JPG == <<"c", "o", "v", "e", "r", ".", "j", "p", "g">>
COVER_FILENAMES == <<FOLDER_JPG, COVER_JPG>>
EXT_LRC == <<".", "l", "r", "c">>
EXT_TXT == <<".", "t", "x", "t">>

\* the tree f with file n of directory d set to x
WriteFile(f, d, n, x) ==
    [f EXCEPT ![d] = [m \in DOMAIN f[d] \cup {n} |-> IF m = n THEN x ELSE f[d][m]]]

\* the tree f without file n of directory d
RemoveFile(f, d, n) ==
    [f EXCEPT ![d] = [m \in DOMAIN f[d] \ {n} |-> f[d][m]]]

FileExists(f, d, n) == d \in DOMAIN f /\ n \in DOMAIN f[d]

\* os.path.exists of directory d's entry n: a file or a subdirectory
PathExists(f, d, n) == FileExists(f, d, n) \/ Append(d, n) \in DOMAIN f

\* os.makedirs(d, exist_ok=True)
makedirs(f, d) ==
    LET missing == {SubSeq(d, 1, n) : n \in 0..Len(d)} \ DOMAIN f
    IN  [q \in DOMAIN f \cup missing |-> IF q \in DOMAIN f THEN f[q] ELSE NoFiles]

\* shutil.move(src, dst) of a directory to a path that does not exist
move_tree(f, src, dst) ==
    LET under == {q \in DOMAIN f : IsPrefix(src, q)}
        to(q) == dst \o SubSeq(q, Len(src) + 1, Len(q))
        from(q) == src \o SubSeq(q, Len(dst) + 1, Len(q))
    IN  [q \in (DOMAIN f \ under) \cup {to(r) : r \in under} |->
            IF IsPrefix(dst, q) THEN f[from(q)] ELSE f[q]]

\* os.path.basename(album_folder)
basename(p) == IF p = <<>> THEN ROOT ELSE p[Len(p)]

\* os.path.splitext(name)[1]
splitext_ext(n) ==
    LET dots == {m \in 1..Len(n) : n[m] = "."}
        last == CHOOSE m \in dots : \A o \in dots : o <= m
    IN  IF dots = {} \/ (\A m \in 1..last : n[m] = ".") THEN <<>>
        ELSE SubSeq(n, last, Len(n))

(***************************************************************************)
(* fix_cover_for_rockbox, the metadata reader and the providers.           *)
(***************************************************************************)
\* fix_cover_for_rockbox(image_path) for the image `name` of directory d.
\* remove_ok: os.remove succeeds; save_ok: img.save succeeds.
fix_cover_for_rockbox(f, d, name, remove_ok, save_ok) ==
    IF ~FileExists(f, d, name) \/ f[d][name].kind # "image" \/ ~f[d][name].ok
    THEN [fs |-> f, ret |-> None]
    ELSE LET img == f[d][name]
             f1 == IF Lower(name) # FOLDER_JPG /\ remove_ok
                   THEN RemoveFile(f, d, name) ELSE f
         IN  IF save_ok
             THEN [fs |-> WriteFile(f1, d, FOLDER_JPG, Image(img.src, TRUE, TRUE)),
                   ret |-> FOLDER_JPG]
             ELSE [fs |-> f1, ret |-> None]

\* get_album_info_from_tag(audio_path)
get_album_info_from_tag(f, d, n) ==
    IF ~FileExists(f, d, n) \/ f[d][n].kind # "audio" \/ ~f[d][n].ok
    THEN <<None, None>>
    ELSE <<first_or_scalar(f[d][n].artist), first_or_scalar(f[d][n].album)>>

\* what one request to an art provider can end in: an image is saved; bytes
\* that are no image are saved; no match (or no cover); transport/HTTP error
ProviderOutcomes == {"image", "garbage", "nomatch", "error"}

\* download_art that takes the body of an error response for the image
download_art_error_saves(f, d, provider, outcome) ==
    IF outcome \in {"image", "garbage", "error"}
    THEN [fs |-> WriteFile(f, d, FOLDER_JPG, Image(provider, outcome = "image", FALSE)),
          ret |-> FOLDER_JPG]
    ELSE [fs |-> f, ret |-> None]

\* download_album_art ("A") and _download_art_from_itunes ("B"): the tree and
\* the returned path
download_art(f, d, provider, outcome) ==
    IF outcome \in {"image", "garbage"}
    THEN [fs |-> WriteFile(f, d, FOLDER_JPG, Image(provider, outcome = "image", FALSE)),
          ret |-> FOLDER_JPG]
    ELSE [fs |-> f, ret |-> None]

download_album_art(f, d, outcome) == download_art(f, d, "A", outcome)

download_art_from_itunes(f, d, outcome) == download_art(f, d, "B", outcome)

\* what one request to the lyrics provider can end in
LyricsOutcomes == {"synced", "plain", "none"}

\* download_lyrics(artist, title, dest_folder)
download_lyrics(f, d, title, outcome) ==
    LET safe_title == lyrics_safe_title(title)
        ext == IF outcome = "synced" THEN EXT_LRC ELSE EXT_TXT
    IN  IF outcome = "none" THEN f
        ELSE WriteFile(f, d, safe_title \o ext, Lyrics(title))

(***************************************************************************)
(* The libraries the program is started on.                                *)
(***************************************************************************)
N_AB == <<"A", " ", "-", " ", "B">>
N_AsB == <<"A", " ", " ", "-", " ", " ", "B">>
N_ABq == <<"A", " ", "-", " ", "B", "?">>
N_ABC == <<"A", " ", "-", " ", "B", " ", "-", " ", "C">>
N_A == <<"A">>
N_B == <<"B">>
N_CD == <<"C", "D">>
T_C == <<"C">>
T_pC == <<"(", "C", ")">>
TN_2of12 == <<"2", "/", "1", "2">>
TN_12 == <<"1", "2">>
F_a_mp3 == <<"a", ".", "m", "p", "3">>
F_b_flac == <<"b", ".", "f", "l", "a", "c">>

\* the artist and album tags of a track: both, the artist only, neither
IdTags == {<<ListTag(<<"D">>), StrTag(<<"C">>)>>, <<ListTag(<<"D">>), NoTag>>,
           <<NoTag, NoTag>>}

TitleTags == {NoTag, ListTag(T_C), StrTag(T_pC)}
TrackNumberTags == {NoTag, ListTag(TN_2of12), StrTag(TN_12)}

\* a tree with the root and one album folder
OneAlbum(name, files) == (<<>> :> NoFiles) @@ (<<name>> :> files)

\* One album folder with one untitled track: the folder name, the identity
\* tags and the cover files vary.
ArtTrees ==
    {OneAlbum(name, (F_a_mp3 :> Audio(NoTag, NoTag, id[1], id[2])) @@ covers) :
        name \in {N_AB, N_AsB, N_ABC, N_B},
        id \in IdTags,
        covers \in {NoFiles,
                    COVER_JPG :> Image("pre", TRUE, FALSE),
                    COVER_JPG :> Image("pre", FALSE, FALSE),
                    FOLDER_JPG :> Image("pre", TRUE, FALSE),
                    (FOLDER_JPG :> Image("pre", TRUE, TRUE))
                        @@ (COVER_JPG :> Image("pre", TRUE, FALSE))}}

\* One album folder that stays in place and has its cover: the tracks, their
\* titles and their track numbers vary.
TrackTrees ==
    LET id == <<ListTag(<<"D">>), StrTag(<<"C">>)>>
        cover == FOLDER_JPG :> Image("pre", TRUE, TRUE)
        first == {F_a_mp3 :> Audio(t, n, id[1], id[2]) :
                     t \in TitleTags, n \in TrackNumberTags}
        second == {NoFiles}
                  \cup {F_b_flac :> Audio(t, NoTag, id[1], id[2]) : t \in TitleTags}
    IN  {OneAlbum(N_B, a @@ b @@ cover) : a \in first, b \in second}

\* Several album folders, each with one untitled track and its cover: which
\* folders exist varies, and whether the tracks carry identity tags.
LibraryDirs ==
    {<<N_AB>>, <<N_AB, N_CD>>, <<N_AB, N_ABq>>, <<N_ABq>>, <<N_ABC>>, <<N_B>>,
     <<N_A, N_B>>}

LibraryTrees ==
    LET album(id) == (F_a_mp3 :> Audio(NoTag, NoTag, id[1], id[2]))
                     @@ (FOLDER_JPG :> Image("pre", TRUE, TRUE))
        closed(D) == \A d \in D : Len(d) = 2 /\ d[1] = N_AB => <<N_AB>> \in D
        parents(D) == {<<>>} \cup {SubSeq(d, 1, 1) : d \in D}
    IN  {[p \in D \cup parents(D) |-> IF p \in D THEN album(id) ELSE NoFiles] :
            D \in {E \in SUBSET LibraryDirs : closed(E)},
            id \in {<<ListTag(<<"D">>), StrTag(<<"C">>)>>, <<NoTag, NoTag>>}}

\* One album folder without a separator in its name, whose two tracks differ in
\* having identity tags.
MixedTrees ==
    {OneAlbum(N_B, (F_a_mp3 :> Audio(NoTag, NoTag, ListTag(<<"D">>), StrTag(<<"C">>)))
                   @@ (F_b_flac :> Audio(NoTag, NoTag, NoTag, NoTag)) @@ covers) :
        covers \in {NoFiles, COVER_JPG :> Image("pre", TRUE, FALSE)}}

\* the directory the walk is meant to leave out, and further file names
DOT_ROCKBOX == <<".", "r", "o", "c", "k", "b", "o", "x">>
F_xflac == <<"x", "f", "l", "a", "c">>
F_b_mp3 == <<"b", ".", "m", "p", "3">>
F_00_C_mp3 == <<"0", "0">> \o SEP \o T_C \o <<".", "m", "p", "3">>

\* Libraries with a ".rockbox" directory: it holds a track, or a folder with
\* a track, or both; an album folder beside it or none.
RockboxTrees ==
    LET album == (F_a_mp3 :> Audio(NoTag, NoTag, ListTag(<<"D">>), StrTag(<<"C">>)))
                 @@ (FOLDER_JPG :> Image("pre", TRUE, TRUE))
    IN  {[p \in {<<>>, <<DOT_ROCKBOX>>} \cup D |->
             IF p \in D THEN album ELSE NoFiles] :
            D \in {{<<DOT_ROCKBOX>>},
                   {<<DOT_ROCKBOX, N_AB>>},
                   {<<DOT_ROCKBOX>>, <<DOT_ROCKBOX, N_AB>>},
                   {<<DOT_ROCKBOX>>, <<N_B>>}}}

\* One folder whose files vary in what their names end with: a track or none,
\* a file "xflac" or none, a cover or none.
SuffixTrees ==
    LET id == <<ListTag(<<"D">>), StrTag(<<"C">>)>> IN
    {OneAlbum(N_B, a @@ b @@ c) :
        a \in {NoFiles, F_b_flac :> Audio(NoTag, NoTag, id[1], id[2])},
        b \in {NoFiles, F_xflac :> Audio(NoTag, NoTag, id[1], id[2])},
        c \in {NoFiles, FOLDER_JPG :> Image("pre", TRUE, TRUE)}}

\* One folder with two tracks of the same extension: the second has the title
\* and track number of the first, or has no title and the name the first
\* would be given.
CollisionTrees ==
    LET id == <<ListTag(<<"D">>), StrTag(<<"C">>)>>
        cover == FOLDER_JPG :> Image("pre", TRUE, TRUE)
        first == F_a_mp3 :> Audio(ListTag(T_C), NoTag, id[1], id[2])
    IN  {OneAlbum(N_B, first @@ second @@ cover) :
            second \in {F_b_mp3 :> Audio(ListTag(T_C), NoTag, id[1], id[2]),
                        F_00_C_mp3 :> Audio(NoTag, NoTag, id[1], id[2])}}

InitTrees ==
    ArtTrees \cup TrackTrees \cup LibraryTrees \cup MixedTrees
        \cup RockboxTrees \cup SuffixTrees \cup CollisionTrees

NoPath == <<None>>

\* the locals of process_album_folder and interactive_art_fix before a call
NoLoc ==
    [album_folder |-> NoPath, audio_files |-> <<>>, artist |-> None,
     album |-> None, tag_artist |-> None, base_album |-> None,
     new_cover |-> None, new_artist |-> None, new_album |-> None,
     base_new_album |-> None,
     \* not in the code: what the folder held when the call began
     cover_at_start |-> None, lyrics_at_start |-> {}]

Init ==
    /\ fs \in InitTrees
    /\ pc = "main"
    /\ runs = 1
    /\ album_folders = <<>>
    /\ idx = 0
    /\ loc = NoLoc
    /\ k = 0
    /\ calls = <<>>
    /\ prompts = 0
    /\ fixes = <<>>
    /\ lyric_reqs = <<>>
    /\ results = <<>>
    /\ placed = {}

(***************************************************************************)
(* process_music_library                                                   *)
(***************************************************************************)
\* lines 446-466: the walk, the empty-library return, the sort
process_music_library ==
    /\ pc = "main"
    /\ album_folders' = collect_album_folders(fs)
    /\ idx' = 1
    /\ pc' = IF album_folders' = <<>> THEN "done" ELSE "loop"
    /\ results' = <<>>
    /\ UNCHANGED <<fs, runs, loc, k, calls, prompts, fixes, lyric_reqs, placed>>

\* line 468: the loop over album_folders is exhausted
process_music_library_return ==
    /\ pc = "loop"
    /\ idx > Len(album_folders)
    /\ pc' = "done"
    /\ UNCHANGED <<fs, runs, album_folders, idx, loc, k, calls, prompts, fixes,
                   lyric_reqs, results, placed>>

\* the program is started again on the same library
Restart ==
    /\ pc \in {"done", "crashed"}
    /\ runs < MaxRuns
    /\ runs' = runs + 1
    /\ pc' = "main"
    /\ album_folders' = <<>>
    /\ idx' = 0
    /\ loc' = NoLoc
    /\ k' = 0
    /\ calls' = <<>>
    /\ prompts' = 0
    /\ fixes' = <<>>
    /\ lyric_reqs' = <<>>
    /\ results' = <<>>
    /\ UNCHANGED <<fs, placed>>

(***************************************************************************)
(* process_album_folder                                                    *)
(***************************************************************************)
\* os.listdir: the names of a set, in any order
ListDir(S) ==
    {o \in [1..Cardinality(S) -> S] : \A a, b \in DOMAIN o : o[a] = o[b] => a = b}

\* the destination root/artist/album of the relocation step, or NoPath
\* (lines 407-421)
final_album_path(album_folder) ==
    LET name_parts == Split1(basename(album_folder), SEP)
    IN  IF Len(name_parts) = 2
           /\ sanitize_filename(Strip(name_parts[1])) # <<>>
           /\ sanitize_filename(Strip(name_parts[2])) # <<>>
        THEN <<sanitize_filename(Strip(name_parts[1])),
               sanitize_filename(Strip(name_parts[2]))>>
        ELSE NoPath

\* one entry of results: what an invocation of process_album_folder did
Outcome(folder, ret, moved_to, dest_existed, identified, cover_at_start) ==
    [folder |-> folder, ret |-> ret, moved_to |-> moved_to,
     was_placed |-> folder \in placed, dest_existed |-> dest_existed,
     identified |-> identified, cover_at_start |-> cover_at_start]

\* process_album_folder returns (or raises) and the loop goes on (or not)
Return(ret, moved_to, dest_existed, identified, cover_at_start) ==
    /\ results' = Append(results,
                         Outcome(album_folders[idx], ret, moved_to, dest_existed,
                                 identified, cover_at_start))
    /\ pc' = IF ret = "raised" THEN "crashed" ELSE "loop"
    /\ idx' = idx + 1
    /\ loc' = NoLoc
    /\ k' = 0

\* the recognized cover file folder d holds (folder.jpg before cover.jpg), or None
recognized_cover(f, d) ==
    IF FileExists(f, d, FOLDER_JPG) THEN FOLDER_JPG
    ELSE IF FileExists(f, d, COVER_JPG) THEN COVER_JPG
    ELSE None

\* find_cover that knows folder.jpg only
find_cover_folder_jpg_only(f, d) ==
    IF FileExists(f, d, FOLDER_JPG) THEN FOLDER_JPG ELSE None

\* lines 318-320: the first of COVER_FILENAMES that exists in the folder, or None
find_cover(f, d) ==
    LET found == {n \in 1..Len(COVER_FILENAMES) : FileExists(f, d, COVER_FILENAMES[n])}
    IN  IF found = {} THEN None
        ELSE COVER_FILENAMES[CHOOSE n \in found : \A m \in found : n <= m]

\* the track titles download_lyrics has written a sidecar for in folder d
lyrics_written(f, d) ==
    {f[d][n].for : n \in {m \in DOMAIN f[d] : f[d][m].kind = "lyrics"}}

\* resolve_identity that lets the tags win over the folder name
resolve_identity_tags_first(folder_name, tag_artist, tag_album) ==
    LET name_parts == Split1(folder_name, SEP)
    IN  IF ~Falsy(tag_artist) /\ ~Falsy(tag_album)
        THEN [ok |-> TRUE, artist |-> tag_artist, album |-> tag_album,
              tag_artist |-> tag_artist]
        ELSE IF Len(name_parts) = 2
        THEN [ok |-> TRUE, artist |-> Strip(name_parts[1]),
              album |-> Strip(name_parts[2]), tag_artist |-> Strip(name_parts[1])]
        ELSE [ok |-> FALSE, artist |-> None, album |-> None, tag_artist |-> tag_artist]

\* resolve_identity that is content with one of the two tags
resolve_identity_either_tag(folder_name, tag_artist, tag_album) ==
    LET name_parts == Split1(folder_name, SEP)
    IN  IF Len(name_parts) = 2
        THEN [ok |-> TRUE, artist |-> Strip(name_parts[1]),
              album |-> Strip(name_parts[2]),
              tag_artist |-> IF Falsy(tag_artist) THEN Strip(name_parts[1])
                             ELSE tag_artist]
        ELSE IF ~Falsy(tag_artist) \/ ~Falsy(tag_album)
        THEN [ok |-> TRUE, artist |-> tag_artist, album |-> tag_album,
              tag_artist |-> tag_artist]
        ELSE [ok |-> FALSE, artist |-> None, album |-> None, tag_artist |-> tag_artist]

\* lines 302-314: the identity (artist, album, tag_artist) of the album, or
\* ok = FALSE when neither the folder name nor the tags give one
resolve_identity(folder_name, tag_artist, tag_album) ==
    LET name_parts == Split1(folder_name, SEP)
    IN  IF Len(name_parts) = 2
        THEN [ok |-> TRUE, artist |-> Strip(name_parts[1]),
              album |-> Strip(name_parts[2]),
              tag_artist |-> IF Falsy(tag_artist) THEN Strip(name_parts[1])
                             ELSE tag_artist]
        ELSE IF ~Falsy(tag_artist) /\ ~Falsy(tag_album)
        THEN [ok |-> TRUE, artist |-> tag_artist, album |-> tag_album,
              tag_artist |-> tag_artist]
        ELSE [ok |-> FALSE, artist |-> None, album |-> None, tag_artist |-> tag_artist]

\* lines 288-314: the track list and the identity of the album
process_album_folder ==
    /\ pc = "loop"
    /\ idx <= Len(album_folders)
    /\ calls' = <<>>
    /\ prompts' = 0
    /\ fixes' = <<>>
    /\ lyric_reqs' = <<>>
    /\ LET album_folder == album_folders[idx] IN
       IF album_folder \notin DOMAIN fs
       THEN \* os.listdir raises FileNotFoundError; nothing catches it
            /\ Return("raised", NoPath, FALSE, FALSE, None)
            /\ UNCHANGED <<fs, runs, album_folders, placed>>
       ELSE LET tracks == {n \in DOMAIN fs[album_folder] : IsTrackName(n)} IN
            IF tracks = {}
            THEN /\ Return("False", NoPath, FALSE, FALSE,
                        recognized_cover(fs, album_folder))
                 /\ UNCHANGED <<fs, runs, album_folders, placed>>
            ELSE \E audio_files \in ListDir(tracks) :
                   LET tags == get_album_info_from_tag(fs, album_folder, audio_files[1])
                       id == resolve_identity(basename(album_folder), tags[1], tags[2])
                   IN  IF ~id.ok
                       THEN /\ Return("False", NoPath, FALSE, FALSE,
                                   recognized_cover(fs, album_folder))
                            /\ UNCHANGED <<fs, runs, album_folders, placed>>
                       ELSE /\ loc' = [NoLoc EXCEPT !.album_folder = album_folder,
                                                    !.audio_files = audio_files,
                                                    !.artist = id.artist,
                                                    !.album = id.album,
                                                    !.tag_artist = id.tag_artist,
                                                    !.cover_at_start =
                                                        recognized_cover(fs, album_folder),
                                                    !.lyrics_at_start =
                                                        lyrics_written(fs, album_folder)]
                            /\ pc' = "cover"
                            /\ UNCHANGED <<fs, runs, album_folders, idx, k,
                                           results, placed>>

\* a call of fix_cover_for_rockbox, as recorded in fixes
FixCall(name, image, ret) == [name |-> name, image |-> image, ret |-> ret]

\* lines 317-331: an existing cover file is normalized, or the search begins
existing_cover ==
    /\ pc = "cover"
    /\ LET d == loc.album_folder
           cover_name == find_cover(fs, d)
       IN  IF cover_name # None
           THEN \E remove_ok, save_ok \in BOOLEAN :
                  LET r == fix_cover_for_rockbox(fs, d, cover_name, remove_ok, save_ok)
                  IN  /\ fs' = r.fs
                      /\ fixes' = Append(fixes, FixCall(cover_name, fs[d][cover_name], r.ret))
                      /\ pc' = "lyrics"
                      /\ k' = 1
                      /\ loc' = loc
           ELSE /\ loc' = [loc EXCEPT !.base_album = parse_base_album_name(loc.album)]
                /\ pc' = "search_base"
                /\ UNCHANGED <<fs, fixes, k>>
    /\ UNCHANGED <<runs, album_folders, idx, calls, prompts, lyric_reqs, results, placed>>

\* one art-provider request, as recorded in calls
Call(site, provider, artist, album, ret, outcome) ==
    [site |-> site, provider |-> provider, artist |-> artist, album |-> album,
     got |-> ret # None, outcome |-> outcome]

\* after_search_base without the second attempt under the full album name
after_search_base_no_full(new_cover) == IF new_cover = None THEN "prompt" ELSE "fix"

\* where the automated search goes after a provider attempt (lines 335-342)
after_search_base(new_cover) ==
    IF new_cover = None /\ loc.base_album # loc.album THEN "search_full"
    ELSE IF new_cover = None THEN "prompt"
    ELSE "fix"

\* line 333: download_album_art(artist, base_album, album_folder)
search_base ==
    /\ pc = "search_base"
    /\ \E outcome \in ProviderOutcomes :
         LET r == download_album_art(fs, loc.album_folder, outcome) IN
         /\ fs' = r.fs
         /\ calls' = Append(calls, Call("search_base", "A", loc.artist, loc.base_album, r.ret, outcome))
         /\ loc' = [loc EXCEPT !.new_cover = r.ret]
         /\ pc' = after_search_base(r.ret)
    /\ UNCHANGED <<runs, album_folders, idx, k, prompts, fixes, lyric_reqs, results, placed>>

\* line 337: download_album_art(artist, album, album_folder)
search_full ==
    /\ pc = "search_full"
    /\ \E outcome \in ProviderOutcomes :
         LET r == download_album_art(fs, loc.album_folder, outcome) IN
         /\ fs' = r.fs
         /\ calls' = Append(calls, Call("search_full", "A", loc.artist, loc.album, r.ret, outcome))
         /\ loc' = [loc EXCEPT !.new_cover = r.ret]
         /\ pc' = IF r.ret = None THEN "prompt" ELSE "fix"
    /\ UNCHANGED <<runs, album_folders, idx, k, prompts, fixes, lyric_reqs, results, placed>>

(***************************************************************************)
(* interactive_art_fix                                                     *)
(***************************************************************************)
\* what the operator may type at "Enter new Artist" and "Enter new Album"
ArtistInputs == {<<>>, <<"R">>}
AlbumInputs == {<<" ">>, N_B, <<"B", " ", "(", "D", ")">>}

\* corrected_artist that takes an empty answer as the artist
corrected_artist_as_typed(typed_artist, artist) == Strip(typed_artist)

\* lines 247-249: the artist of a retry; an empty answer keeps the artist
corrected_artist(typed_artist, artist) ==
    IF Strip(typed_artist) = <<>> THEN artist ELSE Strip(typed_artist)

\* lines 235-258 and 281-282: one prompt and the operator's answer.  Past
\* MaxPrompts answers the operator skips.
prompt ==
    /\ pc = "prompt"
    /\ \E choice \in {"1", "2", "x"} :
         /\ choice = "2" \/ prompts < MaxPrompts
         /\ prompts' = prompts + 1
         /\ IF choice = "2"
            THEN \* return None; line 342 finds no cover to fix
                 /\ loc' = [loc EXCEPT !.new_cover = None]
                 /\ pc' = "lyrics"
                 /\ k' = 1
                 /\ calls' = calls
            ELSE IF choice = "1"
            THEN \E typed_artist \in ArtistInputs, typed_album \in AlbumInputs :
                   LET new_artist == corrected_artist(typed_artist, loc.artist)
                       new_album == Strip(typed_album)
                   IN  IF new_album = <<>>
                       THEN UNCHANGED <<loc, pc, k, calls>>
                       ELSE /\ loc' = [loc EXCEPT
                                         !.new_artist = new_artist,
                                         !.new_album = new_album,
                                         !.base_new_album = parse_base_album_name(new_album)]
                            /\ pc' = "retry_base"
                            /\ calls' = <<>>
                            /\ k' = k
            ELSE UNCHANGED <<loc, pc, k, calls>>
    /\ UNCHANGED <<fs, runs, album_folders, idx, fixes, lyric_reqs, results, placed>>

\* line 260: download_album_art(new_artist, base_new_album, album_folder)
retry_base ==
    /\ pc = "retry_base"
    /\ \E outcome \in ProviderOutcomes :
         LET r == download_album_art(fs, loc.album_folder, outcome) IN
         /\ fs' = r.fs
         /\ calls' = Append(calls, Call("retry_base", "A", loc.new_artist,
                                        loc.base_new_album, r.ret, outcome))
         /\ loc' = [loc EXCEPT !.new_cover = r.ret]
         /\ pc' = IF r.ret # None THEN "fix"
                  ELSE IF loc.base_new_album # loc.new_album THEN "retry_full"
                  ELSE "itunes_base"
    /\ UNCHANGED <<runs, album_folders, idx, k, prompts, fixes, lyric_reqs, results, placed>>

\* line 264: download_album_art(new_artist, new_album, album_folder)
retry_full ==
    /\ pc = "retry_full"
    /\ \E outcome \in ProviderOutcomes :
         LET r == download_album_art(fs, loc.album_folder, outcome) IN
         /\ fs' = r.fs
         /\ calls' = Append(calls, Call("retry_full", "A", loc.new_artist,
                                        loc.new_album, r.ret, outcome))
         /\ loc' = [loc EXCEPT !.new_cover = r.ret]
         /\ pc' = IF r.ret # None THEN "fix" ELSE "itunes_base"
    /\ UNCHANGED <<runs, album_folders, idx, k, prompts, fixes, lyric_reqs, results, placed>>

\* line 268: _download_art_from_itunes(new_artist, base_new_album, album_folder)
itunes_base ==
    /\ pc = "itunes_base"
    /\ \E outcome \in ProviderOutcomes :
         LET r == download_art_from_itunes(fs, loc.album_folder, outcome) IN
         /\ fs' = r.fs
         /\ calls' = Append(calls, Call("itunes_base", "B", loc.new_artist,
                                        loc.base_new_album, r.ret, outcome))
         /\ loc' = [loc EXCEPT !.new_cover = r.ret]
         /\ pc' = IF r.ret # None THEN "fix"
                  ELSE IF loc.base_new_album # loc.new_album THEN "itunes_full"
                  ELSE "prompt"
    /\ UNCHANGED <<runs, album_folders, idx, k, prompts, fixes, lyric_reqs, results, placed>>

\* line 271: _download_art_from_itunes(new_artist, new_album, album_folder)
itunes_full ==
    /\ pc = "itunes_full"
    /\ \E outcome \in ProviderOutcomes :
         LET r == download_art_from_itunes(fs, loc.album_folder, outcome) IN
         /\ fs' = r.fs
         /\ calls' = Append(calls, Call("itunes_full", "B", loc.new_artist,
                                        loc.new_album, r.ret, outcome))
         /\ loc' = [loc EXCEPT !.new_cover = r.ret]
         /\ pc' = IF r.ret # None THEN "fix" ELSE "prompt"
    /\ UNCHANGED <<runs, album_folders, idx, k, prompts, fixes, lyric_reqs, results, placed>>

\* lines 342-343: the cover that was found is normalized
fix_new_cover ==
    /\ pc = "fix"
    /\ \E remove_ok, save_ok \in BOOLEAN :
         LET r == fix_cover_for_rockbox(fs, loc.album_folder, loc.new_cover,
                                        remove_ok, save_ok)
         IN  /\ fs' = r.fs
             /\ fixes' = Append(fixes, FixCall(loc.new_cover,
                                               fs[loc.album_folder][loc.new_cover], r.ret))
    /\ pc' = "lyrics"
    /\ k' = 1
    /\ UNCHANGED <<runs, album_folders, idx, loc, calls, prompts, lyric_reqs, results, placed>>

(***************************************************************************)
(* process_album_folder: lyrics, track rename, relocation                  *)
(***************************************************************************)
\* File(track_path) gives a tagged file: the track is there and readable
Readable(f, d, n) == FileExists(f, d, n) /\ f[d][n].kind = "audio" /\ f[d][n].ok

\* one lyrics-provider request, as recorded in lyric_reqs
LyricReq(track, title, outcome) ==
    [track |-> track, title |-> title, outcome |-> outcome,
     had |-> title \in loc.lyrics_at_start]

\* lines 359-363: the sidecar names the existence check looks for
lyrics_exist(f, d, title) ==
    LET base_name == sanitize_filename(title)
    IN  PathExists(f, d, base_name \o EXT_LRC) \/ PathExists(f, d, base_name \o EXT_TXT)

\* lines 347-368: the lyrics of track k
lyrics_step ==
    /\ pc = "lyrics"
    /\ LET d == loc.album_folder
           audio_file == loc.audio_files[k]
           title == IF Readable(fs, d, audio_file)
                    THEN first_or_scalar(fs[d][audio_file].title) ELSE None
       IN  IF Falsy(title) \/ lyrics_exist(fs, d, title)
           THEN UNCHANGED <<fs, lyric_reqs>>
           ELSE \E outcome \in LyricsOutcomes :
                  /\ fs' = download_lyrics(fs, d, title, outcome)
                  /\ lyric_reqs' = Append(lyric_reqs, LyricReq(audio_file, title, outcome))
    /\ IF k < Len(loc.audio_files)
       THEN k' = k + 1 /\ pc' = pc
       ELSE k' = 1 /\ pc' = "rename"
    /\ UNCHANGED <<runs, album_folders, idx, loc, calls, prompts, fixes, results, placed>>

\* lines 387-389: the two-digit track number of the new name
track_num_str(track_num_raw) ==
    IF track_num_raw.t = "none" \/ track_num_raw.v = <<>>
       \/ (track_num_raw.t = "str" /\ track_num_raw.v[1] = <<>>)
    THEN <<"0", "0">>
    ELSE LET first == IF track_num_raw.t = "list" THEN track_num_raw.v[1]
                      ELSE <<track_num_raw.v[1][1]>>
         IN  ZFill(Split1(first, <<"/">>)[1], 2)

\* lines 391-394: the new name of a track
new_track_name(audio_file, title, track_num_raw) ==
    track_num_str(track_num_raw) \o SEP \o sanitize_filename(title)
        \o splitext_ext(audio_file)

\* os.rename(src, dst) inside directory d.  Where dst exists POSIX replaces it
\* and Windows raises FileExistsError (replace = FALSE).
os_rename(f, d, src, dst, replace) ==
    IF FileExists(f, d, dst) /\ ~replace THEN f
    ELSE WriteFile(RemoveFile(f, d, src), d, dst, f[d][src])

\* lines 372-402: the rename of track k
rename_step ==
    /\ pc = "rename"
    /\ LET d == loc.album_folder
           audio_file == loc.audio_files[k]
           title == IF Readable(fs, d, audio_file)
                    THEN first_or_scalar(fs[d][audio_file].title) ELSE None
       IN  IF Falsy(title)
           THEN fs' = fs
           ELSE LET new_name == new_track_name(audio_file, title,
                                               fs[d][audio_file].tracknumber)
                IN  IF new_name = audio_file
                    THEN fs' = fs
                    ELSE \E replace \in BOOLEAN :
                           fs' = os_rename(fs, d, audio_file, new_name, replace)
    /\ IF k < Len(loc.audio_files)
       THEN k' = k + 1 /\ pc' = pc
       ELSE k' = 0 /\ pc' = "organize"
    /\ UNCHANGED <<runs, album_folders, idx, loc, calls, prompts, fixes, lyric_reqs,
                   results, placed>>

\* lines 406-440: the relocation of the folder to root/Artist/Album
organize ==
    /\ pc = "organize"
    /\ LET album_folder == loc.album_folder
           name_parts == Split1(basename(album_folder), SEP)
       IN  IF Len(name_parts) # 2
           THEN /\ Return("True", NoPath, FALSE, TRUE, loc.cover_at_start)
                /\ UNCHANGED <<fs, placed>>
           ELSE LET artist_name == sanitize_filename(Strip(name_parts[1]))
                    new_album_name == sanitize_filename(Strip(name_parts[2]))
                    artist_folder_path == <<artist_name>>
                    final == <<artist_name, new_album_name>>
                    made == makedirs(fs, artist_folder_path)
                IN  IF artist_name = <<>> \/ new_album_name = <<>>
                    THEN /\ Return("True", NoPath, FALSE, TRUE, loc.cover_at_start)
                         /\ UNCHANGED <<fs, placed>>
                    ELSE IF album_folder = final
                    THEN /\ Return("True", NoPath, TRUE, TRUE, loc.cover_at_start)
                         /\ fs' = made
                         /\ placed' = placed
                    ELSE IF PathExists(made, artist_folder_path, new_album_name)
                    THEN /\ Return("False", NoPath, TRUE, TRUE, loc.cover_at_start)
                         /\ fs' = made
                         /\ placed' = placed
                    ELSE IF IsPrefix(album_folder, final)
                    THEN \* shutil.move refuses to move a directory into itself
                         /\ Return("False", NoPath, FALSE, TRUE, loc.cover_at_start)
                         /\ fs' = made
                         /\ placed' = placed
                    ELSE /\ Return("True", final, FALSE, TRUE, loc.cover_at_start)
                         /\ fs' = move_tree(made, album_folder, final)
                         /\ placed' = placed \cup {final}
    /\ UNCHANGED <<runs, album_folders, calls, prompts, fixes, lyric_reqs>>

Next ==
    \/ process_music_library
    \/ process_music_library_return
    \/ Restart
    \/ process_album_folder
    \/ existing_cover
    \/ search_base
    \/ search_full
    \/ prompt
    \/ retry_base
    \/ retry_full
    \/ itunes_base
    \/ itunes_full
    \/ fix_new_cover
    \/ lyrics_step
    \/ rename_step
    \/ organize

Spec == Init /\ [][Next]_vars


(***************************************************************************)
(* The order of the automated art search.                                  *)
(***************************************************************************)
\* a provider request without its result
Attempt(provider, artist, album) == [provider |-> provider, artist |-> artist, album |-> album]

AttemptOf(c) == Attempt(c.provider, c.artist, c.album)

\* the requests of s, all but the last without art, follow the chain `chain`
FollowsChain(s, chain) ==
    /\ Len(s) <= Len(chain)
    /\ \A n \in 1..Len(s) : AttemptOf(s[n]) = chain[n]
    /\ \A n \in 1..(Len(s) - 1) : ~s[n].got

\* the automated search of the current album is under way or has just ended
InAutomatedSearch ==
    \/ pc \in {"search_base", "search_full"}
    \/ pc \in {"prompt", "fix"} /\ prompts = 0

\* the chain as C1 states it: Provider A then Provider B, base name then full name
ChainAB ==
    IF loc.base_album = loc.album
    THEN <<Attempt("A", loc.artist, loc.base_album),
           Attempt("B", loc.artist, loc.base_album)>>
    ELSE <<Attempt("A", loc.artist, loc.base_album),
           Attempt("A", loc.artist, loc.album),
           Attempt("B", loc.artist, loc.base_album),
           Attempt("B", loc.artist, loc.album)>>

\* the chain of lines 333-337: Provider A only
ChainA ==
    IF loc.base_album = loc.album
    THEN <<Attempt("A", loc.artist, loc.base_album)>>
    ELSE <<Attempt("A", loc.artist, loc.base_album),
           Attempt("A", loc.artist, loc.album)>>

\* the search has handed over to the Disambiguator after exactly `chain`
HandsOverAfter(chain) ==
    pc = "prompt" /\ prompts = 0
        => Len(calls) = Len(chain) /\ \A n \in 1..Len(calls) : ~calls[n].got

C2_RunProcessesEveryFolder ==
    /\ pc # "crashed"
    /\ \A n \in 1..Len(results) : results[n].ret # "raised"
    /\ pc = "done" => Len(results) = Len(album_folders)

\* C3: an invocation on a folder that an earlier relocation placed at
\* root/Artist/Album moves nothing and returns True.
C3_PlacedFolderStaysAndSucceeds ==
    \A n \in 1..Len(results) :
        results[n].was_placed =>
            results[n].ret = "True" /\ results[n].moved_to = NoPath

\* path a lies below path b
NestedUnder(a, b) == StartsWith(PathStr(a), PathStr(b) \o OS_SEP)

\* C4: no entry of the candidate list lies below another entry.
C4_NoNestedCandidates ==
    \A i, j \in 1..Len(album_folders) :
        ~NestedUnder(album_folders[i], album_folders[j])

\* C5: of two distinct folders of one run with the same destination, which is
\* free when the first is processed, the first is moved there and returns
\* True, and the second returns False and is still at its path.
C5_CollisionRefusesSecond ==
    \A i, j \in 1..Len(results) :
        (/\ i < j
         /\ final_album_path(results[i].folder) # NoPath
         /\ final_album_path(results[i].folder) = final_album_path(results[j].folder)
         /\ ~results[i].dest_existed)
        => /\ results[i].ret = "True"
           /\ results[i].moved_to = final_album_path(results[i].folder)
           /\ results[j].ret = "False"
           /\ results[j].folder \in DOMAIN fs

\* the part of C5 that holds: the same, for two folders neither of which lies
\* below the other
C5_SiblingCollisionRefusesSecond ==
    \A i, j \in 1..Len(results) :
        (/\ i < j
         /\ final_album_path(results[i].folder) # NoPath
         /\ final_album_path(results[i].folder) = final_album_path(results[j].folder)
         /\ ~results[i].dest_existed
         /\ ~NestedUnder(results[j].folder, results[i].folder))
        => /\ results[i].ret = "True"
           /\ results[i].moved_to = final_album_path(results[i].folder)
           /\ results[j].ret = "False"
           /\ results[j].dest_existed
           /\ results[j].folder \in DOMAIN fs

\* a relocation that is refused changes no directory and no file
C5_RefusalChangesNothing ==
    [][(pc = "organize" /\ results'[Len(results')].ret = "False")
           => \A p \in DOMAIN fs : p \in DOMAIN fs' /\ fs'[p] = fs[p]]_vars


(***************************************************************************)
(* Lyrics and track names.                                                 *)
(***************************************************************************)
\* C6: no lyrics request is made for a track title whose sidecar
\* download_lyrics had already saved in the folder before the invocation began.
C6_NoRequestOnceLyricsSaved ==
    \A n \in 1..Len(lyric_reqs) : ~lyric_reqs[n].had

\* the track number of the new name as C7 states it: the part of the tag
\* value before any "/", zero-padded to two digits, "00" without the tag
C7_TrackNumber(tag) ==
    IF tag.t = "none" THEN <<"0", "0">>
    ELSE ZFill(Split1(tag.v[1], <<"/">>)[1], 2)

\* C7: when the rename step is over, every track with a title tag is named
\* "<NN> - <sanitize_filename(title)><ext>", and every track without one has
\* the name it had.
C7_TracksNamedAfterRename ==
    pc = "organize" =>
        \A n \in DOMAIN fs[loc.album_folder] :
            LET file == fs[loc.album_folder][n] IN
            file.kind = "audio" =>
                IF Falsy(first_or_scalar(file.title))
                THEN n \in Range(loc.audio_files)
                ELSE n = C7_TrackNumber(file.tracknumber) \o SEP
                           \o sanitize_filename(first_or_scalar(file.title))
                           \o splitext_ext(n)


(***************************************************************************)
(* Existing covers and the identity of the album.                          *)
(***************************************************************************)
SearchPositions ==
    {"search_base", "search_full", "prompt", "retry_base", "retry_full",
     "itunes_base", "itunes_full", "fix"}

\* an invocation of process_album_folder has just ended
Returned == results # <<>> /\ pc \in {"loop", "done"}

LastResult == results[Len(results)]

\* C8 as stated: an invocation on a folder that held folder.jpg or cover.jpg
\* when it began makes no art-provider request, does not prompt, and calls
\* fix_cover_for_rockbox on that file.
C8_ExistingCoverIsNormalized ==
    Returned /\ LastResult.cover_at_start # None
        => /\ calls = <<>>
           /\ prompts = 0
           /\ Len(fixes) = 1
           /\ fixes[1].name = LastResult.cover_at_start

\* C8 amended: an invocation on a folder that held folder.jpg or cover.jpg when
\* it began makes no art-provider request and does not prompt; if the album's
\* identity resolves it calls fix_cover_for_rockbox once, on that file
\* (folder.jpg when both exist), whatever that call returns; if the identity
\* does not resolve it returns False with no call of fix_cover_for_rockbox.
C8_ExistingCoverSkipsSearch ==
    /\ pc \in SearchPositions => loc.cover_at_start = None
    /\ loc.cover_at_start # None => calls = <<>> /\ prompts = 0
    /\ pc \in {"lyrics", "rename", "organize"} /\ loc.cover_at_start # None
           => Len(fixes) = 1 /\ fixes[1].name = loc.cover_at_start
    /\ Returned /\ LastResult.cover_at_start # None
           => /\ calls = <<>>
              /\ prompts = 0
              /\ IF LastResult.identified
                 THEN Len(fixes) = 1 /\ fixes[1].name = LastResult.cover_at_start
                 ELSE fixes = <<>> /\ LastResult.ret = "False"

\* an invocation on a folder with cover.jpg has ended, and the normalization
\* of cover.jpg failed
C8_Witness ==
    /\ Returned
    /\ LastResult.cover_at_start = COVER_JPG
    /\ LastResult.identified
    /\ fixes # <<>> /\ fixes[1].ret = None

\* the track files are the ones process_album_folder listed
BeforeRename == pc \in SearchPositions \cup {"cover", "lyrics"}

\* the artist and album tags of the first listed track
FirstTrackTags ==
    get_album_info_from_tag(fs, loc.album_folder, loc.audio_files[1])

\* C9: where the folder name contains " - ", artist and album are the trimmed
\* text before and after its first " - ", whatever the tags hold: the
\* automated requests carry that artist and that album or its base name, and
\* a retry carries that artist or the one the operator typed.  The tags give
\* artist and album only where the name has no " - " and both tags are there.
C9_FolderNameGivesIdentity ==
    loc.album_folder # NoPath =>
        LET name == basename(loc.album_folder)
            at == Find(name, SEP)
        IN  /\ IF at # -1
               THEN /\ loc.artist = Strip(SubSeq(name, 1, at))
                    /\ loc.album = Strip(SubSeq(name, at + Len(SEP) + 1, Len(name)))
               ELSE BeforeRename =>
                        /\ ~Falsy(FirstTrackTags[1]) /\ ~Falsy(FirstTrackTags[2])
                        /\ loc.artist = FirstTrackTags[1]
                        /\ loc.album = FirstTrackTags[2]
            /\ \A n \in 1..Len(calls) :
                  IF calls[n].site \in {"search_base", "search_full"}
                  THEN /\ calls[n].artist = loc.artist
                       /\ calls[n].album \in {loc.album, parse_base_album_name(loc.album)}
                  ELSE calls[n].artist \in {loc.artist} \cup (ArtistInputs \ {<<>>})

\* the operator is prompted for a folder named "Artist - Album" whose first
\* track carries an artist tag and an album tag, after a request was made
C9_Witness ==
    /\ pc = "prompt"
    /\ calls # <<>>
    /\ Find(basename(loc.album_folder), SEP) # -1
    /\ ~Falsy(FirstTrackTags[1]) /\ ~Falsy(FirstTrackTags[2])
    /\ FirstTrackTags # <<loc.artist, loc.album>>

\* the audio file n of folder d lacks the artist tag or the album tag
Untagged(d, n) ==
    \/ Falsy(get_album_info_from_tag(fs, d, n)[1])
    \/ Falsy(get_album_info_from_tag(fs, d, n)[2])

\* C10: an invocation on a folder whose name has no " - " goes on to the cover
\* step only if the first listed track has both tags; otherwise it returns
\* False at once and nothing has changed: no file, no directory, no
\* art-provider or lyrics request, no prompt, no fix_cover_for_rockbox call.
C10_UnidentifiedAlbumUntouched ==
    [][(/\ pc = "loop"
        /\ idx <= Len(album_folders)
        /\ album_folders[idx] \in DOMAIN fs
        /\ Find(basename(album_folders[idx]), SEP) = -1
        /\ \E n \in DOMAIN fs[album_folders[idx]] : IsTrackName(n))
       => IF pc' = "cover"
          THEN ~Untagged(album_folders[idx], loc'.audio_files[1])
          ELSE /\ \E n \in DOMAIN fs[album_folders[idx]] :
                     IsTrackName(n) /\ Untagged(album_folders[idx], n)
               /\ pc' = "loop"
               /\ results'[Len(results')].ret = "False"
               /\ fs' = fs
               /\ placed' = placed
               /\ calls' = <<>> /\ lyric_reqs' = <<>> /\ fixes' = <<>>
               /\ prompts' = 0]_vars

\* an invocation has returned False for a folder with tracks whose identity
\* did not resolve
C10_Witness ==
    /\ Returned
    /\ ~LastResult.identified
    /\ LastResult.ret = "False"
    /\ \E n \in DOMAIN fs[LastResult.folder] : IsTrackName(n)


\* two folders of one run, neither inside the other, had the same free
\* destination: the first was moved there and the second was refused
C5_SiblingWitness ==
    \E i, j \in 1..Len(results) :
        /\ i < j
        /\ final_album_path(results[i].folder) = final_album_path(results[j].folder)
        /\ ~NestedUnder(results[j].folder, results[i].folder)
        /\ results[i].moved_to # NoPath
        /\ results[j].ret = "False"


(***************************************************************************)
(* The pure helpers on their own: parse_base_album_name and                *)
(* sanitize_filename are called on every string of at most MaxLen          *)
(* characters of PureAlphabet.  Here loc holds the argument and the        *)
(* results of the calls.                                                   *)
(***************************************************************************)
MaxLen == 5

\* a space, the marker characters, a dot and a letter
PureAlphabet == {" ", "(", "[", "-", ".", "A"}

Strings(n) == UNION {[1..m -> PureAlphabet] : m \in 0..n}

PureInit ==
    /\ fs = (<<>> :> NoFiles)
    /\ pc = "call"
    /\ runs = 1
    /\ album_folders = <<>>
    /\ idx = 0
    /\ \E name \in Strings(MaxLen) :
         loc = [name |-> name, result |-> None, again |-> None]
    /\ k = 0
    /\ calls = <<>>
    /\ prompts = 0
    /\ fixes = <<>>
    /\ lyric_reqs = <<>>
    /\ results = <<>>
    /\ placed = {}

\* base_album = parse_base_album_name(album)
call_parse_base_album_name ==
    /\ pc = "call"
    /\ loc' = [loc EXCEPT !.result = parse_base_album_name(loc.name)]
    /\ pc' = "parsed"
    /\ UNCHANGED <<fs, runs, album_folders, idx, k, calls, prompts, fixes,
                   lyric_reqs, results, placed>>

\* the base name is given to parse_base_album_name again
call_parse_base_album_name_again ==
    /\ pc = "parsed"
    /\ loc' = [loc EXCEPT !.again = parse_base_album_name(loc.result)]
    /\ pc' = "reparsed"
    /\ UNCHANGED <<fs, runs, album_folders, idx, k, calls, prompts, fixes,
                   lyric_reqs, results, placed>>

\* safe_title = sanitize_filename(title)
call_sanitize_filename ==
    /\ pc = "call"
    /\ loc' = [loc EXCEPT !.result = sanitize_filename(loc.name)]
    /\ pc' = "sanitized"
    /\ UNCHANGED <<fs, runs, album_folders, idx, k, calls, prompts, fixes,
                   lyric_reqs, results, placed>>

PureNext ==
    \/ call_parse_base_album_name
    \/ call_parse_base_album_name_again
    \/ call_sanitize_filename

PureSpec == PureInit /\ [][PureNext]_vars

\* the markers of a deluxe or edition suffix
Markers == {<<" ", "(">>, <<" ", "[">>, SEP}

\* a marker begins at position n of x
MarkerAt(x, n) ==
    \E m \in Markers :
        n + Len(m) - 1 <= Len(x) /\ SubSeq(x, n, n + Len(m) - 1) = m

\* the trimmed text of x before its leftmost marker, or x where it has none
TrimmedPrefix(x) ==
    LET at == {n \in 1..Len(x) : MarkerAt(x, n)}
    IN  IF at = {} THEN x
        ELSE Strip(SubSeq(x, 1, (CHOOSE n \in at : \A m \in at : n <= m) - 1))

\* C11: parse_base_album_name(x) is the trimmed prefix of x before the
\* leftmost of the markers " (", " [", " - ", or x itself when x has none, and
\* parse_base_album_name(parse_base_album_name(x)) = parse_base_album_name(x).
C11_BaseNameIdempotent ==
    /\ pc \in {"parsed", "reparsed"} => loc.result = TrimmedPrefix(loc.name)
    /\ pc = "reparsed" => loc.again = loc.result

\* the function was applied twice to a name with two markers and spaces
\* before the first, and it cut the name
C11_Witness ==
    /\ pc = "reparsed"
    /\ loc.name = <<"A", " ", " ", "(", "[">>
    /\ loc.result = <<"A">>
    /\ loc.again = <<"A">>

\* C12: the result of sanitize_filename has only alphanumerics, spaces and
\* "-", "_", "(", ")", has no space at either end, has no "..", and does not
\* end with ".".
C12_SanitizedNameIsSafe ==
    pc = "sanitized" =>
        LET s == loc.result IN
        /\ \A n \in 1..Len(s) : IsAlnum(s[n]) \/ s[n] \in {" ", "-", "_", "(", ")"}
        /\ s # <<>> => s[1] # " " /\ s[Len(s)] # " "
        /\ \A n \in 1..(Len(s) - 1) : ~(s[n] = "." /\ s[n + 1] = ".")
        /\ s # <<>> => s[Len(s)] # "."

\* sanitize_filename was applied to a name with "..", a character outside the
\* set and a space at its end, and something is left
C12_Witness ==
    /\ pc = "sanitized"
    /\ loc.name = <<"A", ".", ".", "[", " ">>
    /\ loc.result = <<"A">>


(***************************************************************************)
(* The cover file across fix_cover_for_rockbox.                            *)
(***************************************************************************)
\* the invocation of process_album_folder is past its cover step
PastCoverStep == pc \in {"lyrics", "rename", "organize"}

\* folder d holds the normalized folder.jpg
HasNormalizedCover(f, d) ==
    FileExists(f, d, FOLDER_JPG) /\ f[d][FOLDER_JPG].norm

\* C13: whenever fix_cover_for_rockbox was called on an image not named
\* folder.jpg and that image is gone from the folder, the folder holds the
\* normalized folder.jpg.
C13_SourceGoneOnlyWithOutput ==
    PastCoverStep =>
        \A n \in 1..Len(fixes) :
            (/\ Lower(fixes[n].name) # FOLDER_JPG
             /\ ~FileExists(fs, loc.album_folder, fixes[n].name))
            => HasNormalizedCover(fs, loc.album_folder)

\* C19: past the cover step, a folder.jpg that an art provider wrote is in
\* the folder only as the normalized image.
C19_DownloadedCoverOnlyNormalized ==
    (/\ PastCoverStep
     /\ FileExists(fs, loc.album_folder, FOLDER_JPG)
     /\ fs[loc.album_folder][FOLDER_JPG].src \in {"A", "B"})
    => fs[loc.album_folder][FOLDER_JPG].norm


(***************************************************************************)
(* What the walk collects.                                                 *)
(***************************************************************************)
\* the walk is over and no folder has been processed yet
JustWalked == pc \in {"loop", "done"} /\ results = <<>>

\* path p is a directory named ".rockbox" or lies below one
InRockbox(p) == \E n \in 1..Len(p) : p[n] = DOT_ROCKBOX

\* C14: no directory at or below a ".rockbox" directory is in the candidate
\* list.
C14_RockboxNeverCollected ==
    \A n \in 1..Len(album_folders) : ~InRockbox(album_folders[n])

\* directory d of the tree directly holds a file the processor takes as track
HasTrack(d) == \E n \in DOMAIN fs[d] : IsTrackName(n)

\* the part of C17 that holds: a directory that holds a track, is not at or
\* below ".rockbox" and does not lie below a candidate, is a candidate
C17_FoldersWithTracksAreCollected ==
    JustWalked =>
        \A d \in DOMAIN fs :
            (/\ HasTrack(d)
             /\ ~InRockbox(d)
             /\ \A n \in 1..Len(album_folders) : ~NestedUnder(d, album_folders[n]))
            => d \in Range(album_folders)

\* C17: after the walk, every candidate directly holds a file ending in
\* ".mp3" or ".flac" (so process_album_folder finds a track in it), and every
\* directory that holds one, is not at or below ".rockbox" and does not lie
\* below a candidate, is a candidate.
C17_CandidatesAreFoldersWithTracks ==
    JustWalked =>
        /\ \A n \in 1..Len(album_folders) : HasTrack(album_folders[n])
        /\ \A d \in DOMAIN fs :
              (/\ HasTrack(d)
               /\ ~InRockbox(d)
               /\ \A n \in 1..Len(album_folders) : ~NestedUnder(d, album_folders[n]))
              => d \in Range(album_folders)

\* C18: when the rename step is over the folder holds as many tracks as
\* process_album_folder listed.
C18_RenameKeepsEveryTrack ==
    pc = "organize" =>
        Cardinality({n \in DOMAIN fs[loc.album_folder] : IsTrackName(n)})
            = Len(loc.audio_files)


(***************************************************************************)
(* The Disambiguator and the fallback chain.                               *)
(***************************************************************************)
\* the positions of a retry of interactive_art_fix
RetryPositions == {"retry_base", "retry_full", "itunes_base", "itunes_full"}

\* the positions inside interactive_art_fix
HelperPositions == {"prompt"} \cup RetryPositions

\* the request the step just taken has made
NewCall == calls'[Len(calls')]

\* C15: interactive_art_fix is left only from the prompt by the choice to
\* skip, with no art, or from a retry whose request returned art, with that
\* path.  A request of a retry that returned none is followed by the next
\* request of the retry or by the prompt.  A step from the prompt to the
\* prompt (an invalid choice, an empty album name) makes no request and
\* changes no file.  A retry has a non-empty album name, and its artist is the
\* one typed or, where nothing was typed, the artist of the album.
C15_HelperLeavesBySkipOrArt ==
    /\ [](pc \in RetryPositions =>
             /\ loc.new_album # <<>>
             /\ loc.new_artist # <<>>
             /\ loc.new_artist \in {loc.artist} \cup {Strip(a) : a \in ArtistInputs}
             /\ \A n \in 1..Len(calls) : calls[n].artist = loc.new_artist)
    /\ [][/\ (pc \in HelperPositions /\ pc' \notin HelperPositions) =>
                \/ /\ pc = "prompt" /\ pc' = "lyrics"
                   /\ loc'.new_cover = None
                   /\ calls' = calls /\ fs' = fs
                \/ /\ pc \in RetryPositions /\ pc' = "fix"
                   /\ NewCall.got
                   /\ loc'.new_cover = FOLDER_JPG
                   /\ FileExists(fs', loc.album_folder, FOLDER_JPG)
          /\ (pc \in RetryPositions /\ ~NewCall.got) =>
                /\ pc' \in HelperPositions
                /\ pc \in {"itunes_full"} => pc' = "prompt"
          /\ (pc = "prompt" /\ pc' = "prompt") =>
                calls' = calls /\ fs' = fs /\ prompts' = prompts + 1
          /\ (pc = "prompt" /\ pc' = "retry_base") =>
                calls' = <<>> /\ fs' = fs]_vars

\* every request of a retry made with the album's own artist has failed and
\* the operator is prompted again
C15_Witness ==
    /\ pc = "prompt"
    /\ prompts > 0
    /\ Len(calls) = 4
    /\ calls[4].site = "itunes_full"
    /\ loc.new_artist = loc.artist

\* where the chain goes after a request made at position `at` returned none
NextInChain(at) ==
    CASE at = "search_base" ->
            IF loc.base_album # loc.album THEN "search_full" ELSE "prompt"
      [] at = "search_full" -> "prompt"
      [] at = "retry_base" ->
            IF loc.base_new_album # loc.new_album THEN "retry_full" ELSE "itunes_base"
      [] at = "retry_full" -> "itunes_base"
      [] at = "itunes_base" ->
            IF loc.base_new_album # loc.new_album THEN "itunes_full" ELSE "prompt"
      [] at = "itunes_full" -> "prompt"

\* C16: a request that ends in a transport or HTTP error, like one that finds
\* no match, returns no path, writes nothing and raises nothing, and the next
\* step of the chain follows; within one pass of the chain no provider is
\* asked twice for the same artist and album.
C16_ErrorIsNoMatch ==
    /\ [](/\ \A n \in 1..Len(calls) :
                calls[n].outcome \in {"nomatch", "error"} => ~calls[n].got
          /\ \A i, j \in 1..Len(calls) :
                i # j => AttemptOf(calls[i]) # AttemptOf(calls[j]))
    /\ [][(/\ pc \in {"search_base", "search_full"} \cup RetryPositions
           /\ NewCall.outcome \in {"nomatch", "error"})
          => /\ pc' = NextInChain(pc)
             /\ fs' = fs
             /\ loc'.new_cover = None
             /\ results' = results]_vars

\* a retry whose four requests all ended in an error is over and the operator
\* is prompted again
C16_Witness ==
    /\ pc = "prompt"
    /\ Len(calls) = 4
    /\ \A n \in 1..4 : calls[n].outcome = "error"

====
